---- MODULE Spec2Model ----
(***************************************************************************)
(* BCWorldBuoys: the characteristic-text interpreters of the five Light    *)
(* List converters (Lights.py, LightsV2.py, LightsV3.py, LightsV5.py,      *)
(* LightsV6.py).  A text is a sequence of one-character strings, so that    *)
(* substring tests, word boundaries and case folding are computed as the   *)
(* Python code computes them.                                              *)
(***************************************************************************)
EXTENDS Integers, Sequences, FiniteSets, TLC

VARIABLES
    char,       \* the characteristic text of the record being converted
    blackDir,   \* whether the working directory has a directory named "black"
    out,        \* what the converter wrote for the record
    parser,     \* the two-line parser that reads the file: "V2", "V3" or "none"
    lines,      \* the non-empty lines of the file
    ix,         \* the index of the line the parser is at (i of the code, from 1)
    entries,    \* the entries parsed so far
    reader,     \* the rows of the CSV file LightsV6.main has not read yet
    inside      \* the records LightsV6.main has collected

parseVars == <<parser, lines, ix, entries>>

csvVars == <<reader, inside>>

vars == <<char, blackDir, out, parser, lines, ix, entries, reader, inside>>

----------------------------------------------------------------------------
(* Bounds of the model *)

\* a characteristic text is at most MaxPieces vocabulary pieces, joined by blanks
MaxPieces == 2
\* decimal places kept of a parsed number; numbers are counted in 1/Scale
MaxFracDigits == 3
\* periods of the light texts run from one tick to MaxQuarters ticks of 0.25 s
MaxQuarters == 84
\* a file has at most MaxLines non-empty lines
MaxLines == 4

----------------------------------------------------------------------------
(* Characters *)

\* one symbol that stands for a run of 400 decimal digits "999...9"
HugeDigits == "9{400}"

Digit == {"0","1","2","3","4","5","6","7","8","9"}

DigitVal == [d \in Digit |-> CASE d = "0" -> 0 [] d = "1" -> 1 [] d = "2" -> 2
                               [] d = "3" -> 3 [] d = "4" -> 4 [] d = "5" -> 5
                               [] d = "6" -> 6 [] d = "7" -> 7 [] d = "8" -> 8
                               [] OTHER -> 9]

LowerOf == [A |-> "a", B |-> "b", C |-> "c", D |-> "d", E |-> "e", F |-> "f",
            G |-> "g", H |-> "h", I |-> "i", J |-> "j", K |-> "k", L |-> "l",
            M |-> "m", N |-> "n", O |-> "o", P |-> "p", Q |-> "q", R |-> "r",
            S |-> "s", T |-> "t", U |-> "u", V |-> "v", W |-> "w", X |-> "x",
            Y |-> "y", Z |-> "z"]

UpperOf == [a |-> "A", b |-> "B", c |-> "C", d |-> "D", e |-> "E", f |-> "F",
            g |-> "G", h |-> "H", i |-> "I", j |-> "J", k |-> "K", l |-> "L",
            m |-> "M", n |-> "N", o |-> "O", p |-> "P", q |-> "Q", r |-> "R",
            s |-> "S", t |-> "T", u |-> "U", v |-> "V", w |-> "W", x |-> "X",
            y |-> "Y", z |-> "Z"]

UpperLetters == DOMAIN LowerOf
LowerLetters == DOMAIN UpperOf
DigitChars == Digit \cup {HugeDigits}
WordChars == UpperLetters \cup LowerLetters \cup DigitChars \cup {"_"}

\* regex \d
IsDigit(c) == c \in DigitChars

\* regex \w
IsWordChar(c) == c \in WordChars

\* regex \s
IsSpace(c) == c = " "

----------------------------------------------------------------------------
(* Strings *)

\* str.lower()
lower(t) ==
    SubSeq([k \in 1..Len(t) |-> IF t[k] \in UpperLetters THEN LowerOf[t[k]] ELSE t[k]], 1, Len(t))

\* str.upper()
upper(t) ==
    SubSeq([k \in 1..Len(t) |-> IF t[k] \in LowerLetters THEN UpperOf[t[k]] ELSE t[k]], 1, Len(t))

\* w occurs in t at position i
OccursAt(t, w, i) ==
    /\ i + Len(w) - 1 <= Len(t)
    /\ \A k \in 1..Len(w) : t[i + k - 1] = w[k]

\* Python's  w in t
Contains(t, w) == \E i \in 1..(Len(t) - Len(w) + 1) : OccursAt(t, w, i)

\* regex \b between positions i and i+1 of t (i = 0: before the text)
Boundary(t, i) ==
    LET before == i >= 1 /\ i <= Len(t) /\ IsWordChar(t[i])
        after  == i + 1 >= 1 /\ i + 1 <= Len(t) /\ IsWordChar(t[i + 1])
    IN  before # after

\* re.search(r"\bw\b", t)
HasToken(t, w) ==
    \E i \in 1..(Len(t) - Len(w) + 1) :
        /\ OccursAt(t, w, i)
        /\ Boundary(t, i - 1)
        /\ Boundary(t, i + Len(w) - 1)

\* str.startswith
StartsWith(t, w) == Len(w) <= Len(t) /\ OccursAt(t, w, 1)

\* c * n  (empty for n <= 0)
Rep(c, n) == [k \in 1..n |-> c]

\* "LD" * n
RepLD(n) == [k \in 1..(2 * n) |-> IF k % 2 = 1 THEN "L" ELSE "D"]

Max(a, b) == IF a >= b THEN a ELSE b
Min(a, b) == IF a <= b THEN a ELSE b

----------------------------------------------------------------------------
(* Floats: a finite value counts 1/Scale units, or the value is inf *)

RECURSIVE Pow10(_)
Pow10(n) == IF n = 0 THEN 1 ELSE 10 * Pow10(n - 1)

Scale == Pow10(MaxFracDigits)

Fin(v) == [inf |-> FALSE, v |-> v]
Inf == [inf |-> TRUE, v |-> 0]

\* value of the decimal digits t[i..j] as an integer
RECURSIVE IntVal(_, _, _)
IntVal(t, i, j) == IF j < i THEN 0 ELSE 10 * IntVal(t, i, j - 1) + DigitVal[t[j]]

\* value, in 1/Scale, of the fraction digits t[i..j] (the first MaxFracDigits of them)
FracVal(t, i, j) ==
    LET n == Min(j - i + 1, MaxFracDigits)
    IN  IntVal(t, i, i + n - 1) * Pow10(MaxFracDigits - n)

\* float(t[i..b]) where t[i..a] is the integer part and t[a+2..b] the fraction
float(t, i, a, b) ==
    IF \E k \in i..b : t[k] = HugeDigits
    THEN Inf
    ELSE Fin(IntVal(t, i, a) * Scale + (IF b > a THEN FracVal(t, a + 2, b) ELSE 0))

\* end of the maximal run of characters satisfying \d that starts at i
DigitsEnd(t, i) ==
    CHOOSE j \in i..Len(t) :
        /\ \A k \in i..j : IsDigit(t[k])
        /\ j = Len(t) \/ ~IsDigit(t[j + 1])

\* end of the maximal run of blanks after position b (b when there is none)
SpacesEnd(t, b) ==
    CHOOSE c \in b..Len(t) :
        /\ \A k \in (b + 1)..c : IsSpace(t[k])
        /\ c = Len(t) \/ ~IsSpace(t[c + 1])

\* The match of  (\d+(?:\.\d+)?)\s*U  (followed by \b when wordEnd) that starts at
\* i, as <<a, b>>: integer part t[i..a], number t[i..b]; <<0, 0>> when there is
\* none.  Every quantifier is greedy and what follows a run can never match a
\* character of the run, so backtracking finds no other match at i.
NumberUnitAt(t, i, unit, wordEnd) ==
    IF ~IsDigit(t[i]) THEN <<0, 0>>
    ELSE LET a == DigitsEnd(t, i)
             b == IF a + 2 <= Len(t) /\ t[a + 1] = "." /\ IsDigit(t[a + 2])
                  THEN DigitsEnd(t, a + 2) ELSE a
             c == SpacesEnd(t, b)
         IN  IF /\ c + 1 <= Len(t)
                /\ t[c + 1] \in unit
                /\ wordEnd => Boundary(t, c + 1)
             THEN <<a, b>> ELSE <<0, 0>>

\* m = re.search(number-unit pattern, t);  float(m.group(1)) if m else default
NumberUnit(t, unit, wordEnd, default) ==
    LET starts == {i \in 1..Len(t) : NumberUnitAt(t, i, unit, wordEnd) # <<0, 0>>}
    IN  IF starts = {} THEN default
        ELSE LET i == CHOOSE s \in starts : \A s2 \in starts : s <= s2
                 m == NumberUnitAt(t, i, unit, wordEnd)
             IN  float(t, i, m[1], m[2])

\* round(num / den) of Python 3: to the nearest integer, a tie to the even one
RoundHalfEven(num, den) ==
    LET q == num \div den
        r == num % den
    IN  IF 2 * r < den THEN q
        ELSE IF 2 * r > den THEN q + 1
        ELSE IF q % 2 = 0 THEN q ELSE q + 1

\* a returned value, or the exception that left the function
Return(v) == [exc |-> "none", val |-> v]
Raise(e) == [exc |-> e, val |-> <<>>]

----------------------------------------------------------------------------
(* Constants of the converters *)

\* one tick is 0.25 s
TicksPerSecond == 4
MinTicks == 4
MaxTicks == 80

L1_DEFAULT_PERIOD_S == 4
L1_DEFAULT_RANGE_NM == 6
V2_DEFAULT_PERIOD_S == 4
V2_DEFAULT_RANGE_NM == 6
V3_DEFAULT_PERIOD_S == 4
V3_DEFAULT_RANGE_NM == 6
V5_DEFAULT_HEIGHT_M == 10
V5_DEFAULT_RANGE_NM == 10
V5_DEFAULT_PERIOD_S == 4
V6_DEFAULT_HEIGHT_M == 5
V6_DEFAULT_RANGE_NM == 5
V6_DEFAULT_PERIOD_S == 4

\* period_s > 0.5
AboveNoise(period_s) == period_s.inf \/ 2 * period_s.v > Scale

\* int(round(P / 0.25)): OverflowError when P is inf
RoundTicks(P) ==
    IF P.inf THEN Raise("OverflowError")
    ELSE Return(RoundHalfEven(TicksPerSecond * P.v, Scale))

\* max(4, min(80, n))
Clamp(n) == Max(MinTicks, Min(MaxTicks, n))

\* the keys of extract_char_key, in the order the code tries them
CharKeys == << <<"i","s","o">>, <<"o","c">>, <<"l","f","l">>, <<"f","f","l">>, <<"f","l">>, <<"v","q">>, <<"q">> >>

----------------------------------------------------------------------------
(* Lights.py *)

L1_extract_color(txt0) ==
    LET txt == lower(txt0)
    IN  IF Contains(txt, <<"w","h","i","t","e">>) THEN "white"
        ELSE IF Contains(txt, <<"r","e","d">>) THEN "red"
        ELSE IF Contains(txt, <<"g","r","e","e","n">>) THEN "green"
        ELSE IF Contains(txt, <<"y","e","l","l","o","w">>) THEN "yellow"
        ELSE IF Contains(txt, <<"b","l","u","e">>) THEN "blue"
        ELSE IF Contains(txt, <<"w">>) THEN "white"
        ELSE IF Contains(txt, <<"r">>) THEN "red"
        ELSE IF Contains(txt, <<"g">>) THEN "green"
        ELSE IF Contains(txt, <<"y">>) THEN "yellow"
        ELSE IF Contains(txt, <<"b">>) THEN "blue"
        ELSE "white"

L1_extract_period_seconds(txt) ==
    NumberUnit(txt, {"s", "S"}, FALSE, Fin(L1_DEFAULT_PERIOD_S * Scale))

L1_extract_range_nm(txt) ==
    NumberUnit(txt, {"M"}, TRUE, Fin(L1_DEFAULT_RANGE_NM * Scale))

L1_CharKeys == << <<"i","s","o">>, <<"o","c">>, <<"f","l">>, <<"q">>, <<"v","q">> >>

L1_extract_char(txt) ==
    LET t == lower(txt)
        hits == {n \in 1..Len(L1_CharKeys) : Contains(t, L1_CharKeys[n])}
    IN  IF hits = {} THEN <<"F","I","X">>
        ELSE upper(L1_CharKeys[CHOOSE n \in hits : \A n2 \in hits : n <= n2])

L1_sequence(ch, period_s) ==
    LET P == IF AboveNoise(period_s) THEN period_s ELSE Fin(L1_DEFAULT_PERIOD_S * Scale)
        rt == RoundTicks(P)
        ticks == rt.val
    IN  IF rt.exc # "none" THEN rt
        ELSE IF StartsWith(ch, <<"F","L">>)
        THEN Return(Rep("L", 2) \o Rep("D", ticks - 2))
        ELSE IF StartsWith(ch, <<"I","S","O">>)
        THEN Return(Rep("L", ticks \div 2) \o Rep("D", ticks \div 2))
        ELSE IF StartsWith(ch, <<"O","C">>)
        THEN Return(Rep("L", (6 * ticks) \div 10) \o Rep("D", (4 * ticks) \div 10))
        ELSE IF ch \in {<<"Q">>, <<"V","Q">>}
        THEN Return(RepLD(ticks \div 2))
        ELSE Return(<<"L">>)

----------------------------------------------------------------------------
(* LightsV2.py *)

V2_extract_color(text) ==
    LET t == lower(text)
    IN  IF Contains(t, <<"w","h","i","t","e">>) THEN "white"
        ELSE IF Contains(t, <<"r","e","d">>) THEN "red"
        ELSE IF Contains(t, <<"g","r","e","e","n">>) THEN "green"
        ELSE IF Contains(t, <<"y","e","l","l","o","w">>) THEN "yellow"
        ELSE IF Contains(t, <<"b","l","u","e">>) THEN "blue"
        ELSE IF HasToken(text, <<"W">>) THEN "white"
        ELSE IF HasToken(text, <<"R">>) THEN "red"
        ELSE IF HasToken(text, <<"G">>) THEN "green"
        ELSE IF HasToken(text, <<"Y">>) THEN "yellow"
        ELSE IF HasToken(text, <<"B">>) THEN "blue"
        ELSE "white"

V2_extract_period_seconds(text) ==
    NumberUnit(text, {"s", "S"}, TRUE, Fin(V2_DEFAULT_PERIOD_S * Scale))

V2_extract_range_nm(text) ==
    NumberUnit(text, {"M"}, TRUE, Fin(V2_DEFAULT_RANGE_NM * Scale))

V2_extract_char_key(text) ==
    LET t == lower(text)
        hits == {n \in 1..Len(CharKeys) : HasToken(t, CharKeys[n])}
    IN  IF hits = {} THEN <<"F","I","X">>
        ELSE upper(CharKeys[CHOOSE n \in hits : \A n2 \in hits : n <= n2])

\* V2_sequence without the replacement of a period of at most 0.5 s
V2_sequence_no_noise(ch, period_s) ==
    LET P == period_s
        rt == RoundTicks(P)
        ticks == Clamp(rt.val)
    IN  IF rt.exc # "none" THEN rt
        ELSE IF StartsWith(ch, <<"F","L">>)
        THEN LET on == Max(1, RoundHalfEven(5 * TicksPerSecond, 10))
             IN  Return(Rep("L", on) \o Rep("D", ticks - on))
        ELSE IF StartsWith(ch, <<"L","F","L">>)
        THEN LET on == Max(1, RoundHalfEven(20 * TicksPerSecond, 10))
             IN  Return(Rep("L", Min(on, ticks - 1)) \o Rep("D", Max(1, ticks - on)))
        ELSE IF StartsWith(ch, <<"I","S","O">>)
        THEN Return(Rep("L", ticks \div 2) \o Rep("D", ticks - ticks \div 2))
        ELSE IF StartsWith(ch, <<"O","C">>)
        THEN LET on == RoundHalfEven(6 * ticks, 10)
             IN  Return(Rep("L", on) \o Rep("D", ticks - on))
        ELSE IF ch \in {<<"Q">>, <<"V","Q">>}
        THEN Return(IF RepLD(ticks \div 2) # <<>> THEN RepLD(ticks \div 2) ELSE <<"L","D">>)
        ELSE Return(<<"L">>)

\* V2_sequence with the long flash not capped at ticks - 1
V2_sequence_lfl_uncapped(ch, period_s) ==
    LET P == IF AboveNoise(period_s) THEN period_s ELSE Fin(V2_DEFAULT_PERIOD_S * Scale)
        rt == RoundTicks(P)
        ticks == Clamp(rt.val)
    IN  IF rt.exc # "none" THEN rt
        ELSE IF StartsWith(ch, <<"F","L">>)
        THEN LET on == Max(1, RoundHalfEven(5 * TicksPerSecond, 10))
             IN  Return(Rep("L", on) \o Rep("D", ticks - on))
        ELSE IF StartsWith(ch, <<"L","F","L">>)
        THEN LET on == Max(1, RoundHalfEven(20 * TicksPerSecond, 10))
             IN  Return(Rep("L", on) \o Rep("D", Max(1, ticks - on)))
        ELSE IF StartsWith(ch, <<"I","S","O">>)
        THEN Return(Rep("L", ticks \div 2) \o Rep("D", ticks - ticks \div 2))
        ELSE IF StartsWith(ch, <<"O","C">>)
        THEN LET on == RoundHalfEven(6 * ticks, 10)
             IN  Return(Rep("L", on) \o Rep("D", ticks - on))
        ELSE IF ch \in {<<"Q">>, <<"V","Q">>}
        THEN Return(IF RepLD(ticks \div 2) # <<>> THEN RepLD(ticks \div 2) ELSE <<"L","D">>)
        ELSE Return(<<"L">>)

V2_sequence(ch, period_s) ==
    LET P == IF AboveNoise(period_s) THEN period_s ELSE Fin(V2_DEFAULT_PERIOD_S * Scale)
        rt == RoundTicks(P)
        ticks == Clamp(rt.val)
    IN  IF rt.exc # "none" THEN rt
        ELSE IF StartsWith(ch, <<"F","L">>)
        THEN LET on == Max(1, RoundHalfEven(5 * TicksPerSecond, 10))
             IN  Return(Rep("L", on) \o Rep("D", ticks - on))
        ELSE IF StartsWith(ch, <<"L","F","L">>)
        THEN LET on == Max(1, RoundHalfEven(20 * TicksPerSecond, 10))
             IN  Return(Rep("L", Min(on, ticks - 1)) \o Rep("D", Max(1, ticks - on)))
        ELSE IF StartsWith(ch, <<"I","S","O">>)
        THEN Return(Rep("L", ticks \div 2) \o Rep("D", ticks - ticks \div 2))
        ELSE IF StartsWith(ch, <<"O","C">>)
        THEN LET on == RoundHalfEven(6 * ticks, 10)
             IN  Return(Rep("L", on) \o Rep("D", ticks - on))
        ELSE IF ch \in {<<"Q">>, <<"V","Q">>}
        THEN Return(IF RepLD(ticks \div 2) # <<>> THEN RepLD(ticks \div 2) ELSE <<"L","D">>)
        ELSE Return(<<"L">>)

----------------------------------------------------------------------------
(* LightsV3.py *)

\* V3_extract_color with the single letters tried before the colour words
V3_extract_color_letters_first(text) ==
    LET t == lower(text)
    IN  IF HasToken(text, <<"W">>) THEN "white"
        ELSE IF HasToken(text, <<"R">>) THEN "red"
        ELSE IF HasToken(text, <<"G">>) THEN "green"
        ELSE IF HasToken(text, <<"Y">>) THEN "yellow"
        ELSE IF HasToken(text, <<"B">>) THEN "blue"
        ELSE IF Contains(t, <<"w","h","i","t","e">>) THEN "white"
        ELSE IF Contains(t, <<"r","e","d">>) THEN "red"
        ELSE IF Contains(t, <<"g","r","e","e","n">>) THEN "green"
        ELSE IF Contains(t, <<"y","e","l","l","o","w">>) THEN "yellow"
        ELSE IF Contains(t, <<"b","l","u","e">>) THEN "blue"
        ELSE "white"

V3_extract_color(text) ==
    LET t == lower(text)
    IN  IF Contains(t, <<"w","h","i","t","e">>) THEN "white"
        ELSE IF Contains(t, <<"r","e","d">>) THEN "red"
        ELSE IF Contains(t, <<"g","r","e","e","n">>) THEN "green"
        ELSE IF Contains(t, <<"y","e","l","l","o","w">>) THEN "yellow"
        ELSE IF Contains(t, <<"b","l","u","e">>) THEN "blue"
        ELSE IF HasToken(text, <<"W">>) THEN "white"
        ELSE IF HasToken(text, <<"R">>) THEN "red"
        ELSE IF HasToken(text, <<"G">>) THEN "green"
        ELSE IF HasToken(text, <<"Y">>) THEN "yellow"
        ELSE IF HasToken(text, <<"B">>) THEN "blue"
        ELSE "white"

V3_extract_period_seconds(text) ==
    NumberUnit(text, {"s", "S"}, TRUE, Fin(V3_DEFAULT_PERIOD_S * Scale))

V3_extract_range_nm(text) ==
    NumberUnit(text, {"m", "M"}, TRUE, Fin(V3_DEFAULT_RANGE_NM * Scale))

V3_extract_char_key(text) ==
    LET t == lower(text)
        hits == {n \in 1..Len(CharKeys) : HasToken(t, CharKeys[n])}
    IN  IF hits = {} THEN <<"F","I","X">>
        ELSE upper(CharKeys[CHOOSE n \in hits : \A n2 \in hits : n <= n2])

\* V3_sequence without the clamp of the tick count
V3_sequence_unclamped(ch, period_s) ==
    LET P == IF AboveNoise(period_s) THEN period_s ELSE Fin(V3_DEFAULT_PERIOD_S * Scale)
        rt == RoundTicks(P)
        ticks == rt.val
    IN  IF rt.exc # "none" THEN rt
        ELSE IF StartsWith(ch, <<"F","L">>)
        THEN LET on == Max(1, RoundHalfEven(5 * TicksPerSecond, 10))
             IN  Return(Rep("L", on) \o Rep("D", ticks - on))
        ELSE IF StartsWith(ch, <<"L","F","L">>)
        THEN LET on == Min(Max(1, RoundHalfEven(20 * TicksPerSecond, 10)), ticks - 1)
             IN  Return(Rep("L", on) \o Rep("D", ticks - on))
        ELSE IF StartsWith(ch, <<"I","S","O">>)
        THEN Return(Rep("L", ticks \div 2) \o Rep("D", ticks - ticks \div 2))
        ELSE IF StartsWith(ch, <<"O","C">>)
        THEN LET on == RoundHalfEven(6 * ticks, 10)
             IN  Return(Rep("L", on) \o Rep("D", ticks - on))
        ELSE IF ch \in {<<"Q">>, <<"V","Q">>}
        THEN Return(IF RepLD(ticks \div 2) # <<>> THEN RepLD(ticks \div 2) ELSE <<"L","D">>)
        ELSE Return(<<"L">>)

\* V3_sequence with  "FL" in ch  for  ch.startswith("FL")
V3_sequence_contains(ch, period_s) ==
    LET P == IF AboveNoise(period_s) THEN period_s ELSE Fin(V3_DEFAULT_PERIOD_S * Scale)
        rt == RoundTicks(P)
        ticks == Clamp(rt.val)
    IN  IF rt.exc # "none" THEN rt
        ELSE IF Contains(ch, <<"F","L">>)
        THEN LET on == Max(1, RoundHalfEven(5 * TicksPerSecond, 10))
             IN  Return(Rep("L", on) \o Rep("D", ticks - on))
        ELSE IF StartsWith(ch, <<"L","F","L">>)
        THEN LET on == Min(Max(1, RoundHalfEven(20 * TicksPerSecond, 10)), ticks - 1)
             IN  Return(Rep("L", on) \o Rep("D", ticks - on))
        ELSE IF StartsWith(ch, <<"I","S","O">>)
        THEN Return(Rep("L", ticks \div 2) \o Rep("D", ticks - ticks \div 2))
        ELSE IF StartsWith(ch, <<"O","C">>)
        THEN LET on == RoundHalfEven(6 * ticks, 10)
             IN  Return(Rep("L", on) \o Rep("D", ticks - on))
        ELSE IF ch \in {<<"Q">>, <<"V","Q">>}
        THEN Return(IF RepLD(ticks \div 2) # <<>> THEN RepLD(ticks \div 2) ELSE <<"L","D">>)
        ELSE Return(<<"L">>)

\* V3_sequence with the extra tick of an odd ISO period given to the lit phase
V3_sequence_iso_lit_extra(ch, period_s) ==
    LET P == IF AboveNoise(period_s) THEN period_s ELSE Fin(V3_DEFAULT_PERIOD_S * Scale)
        rt == RoundTicks(P)
        ticks == Clamp(rt.val)
    IN  IF rt.exc # "none" THEN rt
        ELSE IF StartsWith(ch, <<"F","L">>)
        THEN LET on == Max(1, RoundHalfEven(5 * TicksPerSecond, 10))
             IN  Return(Rep("L", on) \o Rep("D", ticks - on))
        ELSE IF StartsWith(ch, <<"L","F","L">>)
        THEN LET on == Min(Max(1, RoundHalfEven(20 * TicksPerSecond, 10)), ticks - 1)
             IN  Return(Rep("L", on) \o Rep("D", ticks - on))
        ELSE IF StartsWith(ch, <<"I","S","O">>)
        THEN Return(Rep("L", ticks - ticks \div 2) \o Rep("D", ticks \div 2))
        ELSE IF StartsWith(ch, <<"O","C">>)
        THEN LET on == RoundHalfEven(6 * ticks, 10)
             IN  Return(Rep("L", on) \o Rep("D", ticks - on))
        ELSE IF ch \in {<<"Q">>, <<"V","Q">>}
        THEN Return(IF RepLD(ticks \div 2) # <<>> THEN RepLD(ticks \div 2) ELSE <<"L","D">>)
        ELSE Return(<<"L">>)

\* V3_sequence with the lit share of OC truncated, as int(ticks * 0.6)
V3_sequence_oc_floor(ch, period_s) ==
    LET P == IF AboveNoise(period_s) THEN period_s ELSE Fin(V3_DEFAULT_PERIOD_S * Scale)
        rt == RoundTicks(P)
        ticks == Clamp(rt.val)
    IN  IF rt.exc # "none" THEN rt
        ELSE IF StartsWith(ch, <<"F","L">>)
        THEN LET on == Max(1, RoundHalfEven(5 * TicksPerSecond, 10))
             IN  Return(Rep("L", on) \o Rep("D", ticks - on))
        ELSE IF StartsWith(ch, <<"L","F","L">>)
        THEN LET on == Min(Max(1, RoundHalfEven(20 * TicksPerSecond, 10)), ticks - 1)
             IN  Return(Rep("L", on) \o Rep("D", ticks - on))
        ELSE IF StartsWith(ch, <<"I","S","O">>)
        THEN Return(Rep("L", ticks \div 2) \o Rep("D", ticks - ticks \div 2))
        ELSE IF StartsWith(ch, <<"O","C">>)
        THEN LET on == (6 * ticks) \div 10
             IN  Return(Rep("L", on) \o Rep("D", ticks - on))
        ELSE IF ch \in {<<"Q">>, <<"V","Q">>}
        THEN Return(IF RepLD(ticks \div 2) # <<>> THEN RepLD(ticks \div 2) ELSE <<"L","D">>)
        ELSE Return(<<"L">>)

\* V3_sequence with a single LD unit for Q and VQ
V3_sequence_q_one_unit(ch, period_s) ==
    LET P == IF AboveNoise(period_s) THEN period_s ELSE Fin(V3_DEFAULT_PERIOD_S * Scale)
        rt == RoundTicks(P)
        ticks == Clamp(rt.val)
    IN  IF rt.exc # "none" THEN rt
        ELSE IF StartsWith(ch, <<"F","L">>)
        THEN LET on == Max(1, RoundHalfEven(5 * TicksPerSecond, 10))
             IN  Return(Rep("L", on) \o Rep("D", ticks - on))
        ELSE IF StartsWith(ch, <<"L","F","L">>)
        THEN LET on == Min(Max(1, RoundHalfEven(20 * TicksPerSecond, 10)), ticks - 1)
             IN  Return(Rep("L", on) \o Rep("D", ticks - on))
        ELSE IF StartsWith(ch, <<"I","S","O">>)
        THEN Return(Rep("L", ticks \div 2) \o Rep("D", ticks - ticks \div 2))
        ELSE IF StartsWith(ch, <<"O","C">>)
        THEN LET on == RoundHalfEven(6 * ticks, 10)
             IN  Return(Rep("L", on) \o Rep("D", ticks - on))
        ELSE IF ch \in {<<"Q">>, <<"V","Q">>}
        THEN Return(<<"L","D">>)
        ELSE Return(<<"L">>)

V3_sequence(ch, period_s) ==
    LET P == IF AboveNoise(period_s) THEN period_s ELSE Fin(V3_DEFAULT_PERIOD_S * Scale)
        rt == RoundTicks(P)
        ticks == Clamp(rt.val)
    IN  IF rt.exc # "none" THEN rt
        ELSE IF StartsWith(ch, <<"F","L">>)
        THEN LET on == Max(1, RoundHalfEven(5 * TicksPerSecond, 10))
             IN  Return(Rep("L", on) \o Rep("D", ticks - on))
        ELSE IF StartsWith(ch, <<"L","F","L">>)
        THEN LET on == Min(Max(1, RoundHalfEven(20 * TicksPerSecond, 10)), ticks - 1)
             IN  Return(Rep("L", on) \o Rep("D", ticks - on))
        ELSE IF StartsWith(ch, <<"I","S","O">>)
        THEN Return(Rep("L", ticks \div 2) \o Rep("D", ticks - ticks \div 2))
        ELSE IF StartsWith(ch, <<"O","C">>)
        THEN LET on == RoundHalfEven(6 * ticks, 10)
             IN  Return(Rep("L", on) \o Rep("D", ticks - on))
        ELSE IF ch \in {<<"Q">>, <<"V","Q">>}
        THEN Return(IF RepLD(ticks \div 2) # <<>> THEN RepLD(ticks \div 2) ELSE <<"L","D">>)
        ELSE Return(<<"L">>)

----------------------------------------------------------------------------
(* LightsV5.py *)

V5_extract_color(txt) ==
    LET t == upper(txt)
    IN  IF Contains(t, <<"R","E","D">>) \/ HasToken(t, <<"R">>) THEN "red"
        ELSE IF Contains(t, <<"G","R","E","E","N">>) \/ HasToken(t, <<"G">>) THEN "green"
        ELSE IF Contains(t, <<"Y","E","L","L","O","W">>) \/ Contains(t, <<"A","M","B","E","R">>) \/ HasToken(t, <<"Y">>) THEN "yellow"
        ELSE "white"

V5_extract_period_seconds(txt) ==
    NumberUnit(txt, {"s", "S"}, FALSE, Fin(V5_DEFAULT_PERIOD_S * Scale))

V5_extract_range_nm(txt) ==
    NumberUnit(txt, {"m", "M"}, TRUE, Fin(V5_DEFAULT_RANGE_NM * Scale))

V5_extract_height_m(txt) ==
    NumberUnit(txt, {"m", "M"}, TRUE, Fin(V5_DEFAULT_HEIGHT_M * Scale))

V5_sequence(ch, period) ==
    LET rt == RoundTicks(period)
        ticks == Clamp(rt.val)
        up == upper(ch)
    IN  IF rt.exc # "none" THEN rt
        ELSE IF Contains(up, <<"F","L">>)
        THEN LET on == (5 * TicksPerSecond) \div 10
             IN  Return(Rep("L", on) \o Rep("D", ticks - on))
        ELSE IF Contains(up, <<"I","S","O">>)
        THEN Return(Rep("L", ticks \div 2) \o Rep("D", ticks - ticks \div 2))
        ELSE IF Contains(up, <<"O","C">>)
        THEN LET on == (6 * ticks) \div 10
             IN  Return(Rep("L", on) \o Rep("D", ticks - on))
        ELSE Return(<<"L">>)

\* V5_infer_type with the letters R and G of rule 8 tested as substrings
V5_infer_type_letter_substring(text) ==
    LET t == upper(text)
    IN  IF Contains(t, <<"C","A","R","D","I","N","A","L">>)
        THEN IF Contains(t, <<"N","O","R","T","H">>) THEN "north_small"
             ELSE IF Contains(t, <<"E","A","S","T">>) THEN "east_small"
             ELSE IF Contains(t, <<"S","O","U","T","H">>) THEN "south_small"
             ELSE IF Contains(t, <<"W","E","S","T">>) THEN "west_small"
             ELSE "north_small"
        ELSE IF \/ Contains(t, <<"M","O","(","A",")">>) \/ Contains(t, <<"M","O","R","S","E"," ","(","A",")">>)
                \/ Contains(t, <<"R","/","W">>) \/ Contains(t, <<"R","W">>)
        THEN "safe"
        ELSE IF Contains(t, <<"I","S","O","L","A","T","E","D">>) \/ Contains(t, <<"D","A","N","G","E","R">>) \/ Contains(t, <<"(","2",")">>)
        THEN "danger_small"
        ELSE IF Contains(t, <<"Y","E","L","L","O","W">>) \/ Contains(t, <<"A","M","B","E","R">>)
        THEN "special_small"
        ELSE IF \/ Contains(t, <<"C","A","B","L","E">>) \/ Contains(t, <<"A","N","C","H","O","R">>) \/ Contains(t, <<"R","E","S","E","A","R","C","H">>)
                \/ Contains(t, <<"O","B","S","T","R","U","C","T","I","O","N">>) \/ Contains(t, <<"T","E","M","P">>)
        THEN "special_small"
        ELSE IF Contains(t, <<"R","G">>) \/ Contains(t, <<"R","/","G">>) \/ Contains(t, <<"R","E","D"," ","A","N","D"," ","G","R","E","E","N">>)
        THEN "pref_stbd_small"
        ELSE IF Contains(t, <<"G","R">>) \/ Contains(t, <<"G","/","R">>) \/ Contains(t, <<"G","R","E","E","N"," ","A","N","D"," ","R","E","D">>)
        THEN "pref_port_small"
        ELSE IF Contains(t, <<"R"," ","N","U","N">>) \/ (Contains(t, <<"R","E","D">>) /\ Contains(t, <<"N","U","N">>))
        THEN "stbd_post"
        ELSE IF Contains(t, <<"G"," ","C","A","N">>) \/ (Contains(t, <<"G","R","E","E","N">>) /\ Contains(t, <<"C","A","N">>))
        THEN "port_post"
        ELSE IF Contains(t, <<"R","E","D">>) \/ Contains(t, <<"R">>)
        THEN "stbd_small"
        ELSE IF Contains(t, <<"G","R","E","E","N">>) \/ Contains(t, <<"G">>)
        THEN "port_small"
        ELSE IF Contains(t, <<"M","O","O","R">>) \/ Contains(t, <<"A","N","C","H","O","R">>)
        THEN "mooring"
        ELSE "special_small"

\* V5_infer_type with the safe-water rule tested before the cardinal rule
V5_infer_type_safe_first(text) ==
    LET t == upper(text)
    IN  IF \/ Contains(t, <<"M","O","(","A",")">>) \/ Contains(t, <<"M","O","R","S","E"," ","(","A",")">>)
           \/ Contains(t, <<"R","/","W">>) \/ Contains(t, <<"R","W">>)
        THEN "safe"
        ELSE IF Contains(t, <<"C","A","R","D","I","N","A","L">>)
        THEN IF Contains(t, <<"N","O","R","T","H">>) THEN "north_small"
             ELSE IF Contains(t, <<"E","A","S","T">>) THEN "east_small"
             ELSE IF Contains(t, <<"S","O","U","T","H">>) THEN "south_small"
             ELSE IF Contains(t, <<"W","E","S","T">>) THEN "west_small"
             ELSE "north_small"
        ELSE IF Contains(t, <<"I","S","O","L","A","T","E","D">>) \/ Contains(t, <<"D","A","N","G","E","R">>) \/ Contains(t, <<"(","2",")">>)
        THEN "danger_small"
        ELSE IF Contains(t, <<"Y","E","L","L","O","W">>) \/ Contains(t, <<"A","M","B","E","R">>)
        THEN "special_small"
        ELSE IF \/ Contains(t, <<"C","A","B","L","E">>) \/ Contains(t, <<"A","N","C","H","O","R">>) \/ Contains(t, <<"R","E","S","E","A","R","C","H">>)
                \/ Contains(t, <<"O","B","S","T","R","U","C","T","I","O","N">>) \/ Contains(t, <<"T","E","M","P">>)
        THEN "special_small"
        ELSE IF Contains(t, <<"R","G">>) \/ Contains(t, <<"R","/","G">>) \/ Contains(t, <<"R","E","D"," ","A","N","D"," ","G","R","E","E","N">>)
        THEN "pref_stbd_small"
        ELSE IF Contains(t, <<"G","R">>) \/ Contains(t, <<"G","/","R">>) \/ Contains(t, <<"G","R","E","E","N"," ","A","N","D"," ","R","E","D">>)
        THEN "pref_port_small"
        ELSE IF Contains(t, <<"R"," ","N","U","N">>) \/ (Contains(t, <<"R","E","D">>) /\ Contains(t, <<"N","U","N">>))
        THEN "stbd_post"
        ELSE IF Contains(t, <<"G"," ","C","A","N">>) \/ (Contains(t, <<"G","R","E","E","N">>) /\ Contains(t, <<"C","A","N">>))
        THEN "port_post"
        ELSE IF Contains(t, <<"R","E","D">>) \/ HasToken(t, <<"R">>)
        THEN "stbd_small"
        ELSE IF Contains(t, <<"G","R","E","E","N">>) \/ HasToken(t, <<"G">>)
        THEN "port_small"
        ELSE IF Contains(t, <<"M","O","O","R">>) \/ Contains(t, <<"A","N","C","H","O","R">>)
        THEN "mooring"
        ELSE "special_small"

\* infer_type with the plain colour rules 7 and 8 tested before the combination rules 5 and 6
V5_infer_type_colour_first(text) ==
    LET t == upper(text)
    IN  IF Contains(t, <<"C","A","R","D","I","N","A","L">>)
        THEN IF Contains(t, <<"N","O","R","T","H">>) THEN "north_small"
             ELSE IF Contains(t, <<"E","A","S","T">>) THEN "east_small"
             ELSE IF Contains(t, <<"S","O","U","T","H">>) THEN "south_small"
             ELSE IF Contains(t, <<"W","E","S","T">>) THEN "west_small"
             ELSE "north_small"
        ELSE IF \/ Contains(t, <<"M","O","(","A",")">>) \/ Contains(t, <<"M","O","R","S","E"," ","(","A",")">>)
                \/ Contains(t, <<"R","/","W">>) \/ Contains(t, <<"R","W">>)
        THEN "safe"
        ELSE IF Contains(t, <<"I","S","O","L","A","T","E","D">>) \/ Contains(t, <<"D","A","N","G","E","R">>) \/ Contains(t, <<"(","2",")">>)
        THEN "danger_small"
        ELSE IF Contains(t, <<"Y","E","L","L","O","W">>) \/ Contains(t, <<"A","M","B","E","R">>)
        THEN "special_small"
        ELSE IF \/ Contains(t, <<"C","A","B","L","E">>) \/ Contains(t, <<"A","N","C","H","O","R">>) \/ Contains(t, <<"R","E","S","E","A","R","C","H">>)
                \/ Contains(t, <<"O","B","S","T","R","U","C","T","I","O","N">>) \/ Contains(t, <<"T","E","M","P">>)
        THEN "special_small"
        ELSE IF Contains(t, <<"R"," ","N","U","N">>) \/ (Contains(t, <<"R","E","D">>) /\ Contains(t, <<"N","U","N">>))
        THEN "stbd_post"
        ELSE IF Contains(t, <<"G"," ","C","A","N">>) \/ (Contains(t, <<"G","R","E","E","N">>) /\ Contains(t, <<"C","A","N">>))
        THEN "port_post"
        ELSE IF Contains(t, <<"R","E","D">>) \/ HasToken(t, <<"R">>)
        THEN "stbd_small"
        ELSE IF Contains(t, <<"G","R","E","E","N">>) \/ HasToken(t, <<"G">>)
        THEN "port_small"
        ELSE IF Contains(t, <<"R","G">>) \/ Contains(t, <<"R","/","G">>) \/ Contains(t, <<"R","E","D"," ","A","N","D"," ","G","R","E","E","N">>)
        THEN "pref_stbd_small"
        ELSE IF Contains(t, <<"G","R">>) \/ Contains(t, <<"G","/","R">>) \/ Contains(t, <<"G","R","E","E","N"," ","A","N","D"," ","R","E","D">>)
        THEN "pref_port_small"
        ELSE IF Contains(t, <<"M","O","O","R">>) \/ Contains(t, <<"A","N","C","H","O","R">>)
        THEN "mooring"
        ELSE "special_small"

V5_infer_type(text) ==
    LET t == upper(text)
    IN  IF Contains(t, <<"C","A","R","D","I","N","A","L">>)
        THEN IF Contains(t, <<"N","O","R","T","H">>) THEN "north_small"
             ELSE IF Contains(t, <<"E","A","S","T">>) THEN "east_small"
             ELSE IF Contains(t, <<"S","O","U","T","H">>) THEN "south_small"
             ELSE IF Contains(t, <<"W","E","S","T">>) THEN "west_small"
             ELSE "north_small"
        ELSE IF \/ Contains(t, <<"M","O","(","A",")">>) \/ Contains(t, <<"M","O","R","S","E"," ","(","A",")">>)
                \/ Contains(t, <<"R","/","W">>) \/ Contains(t, <<"R","W">>)
        THEN "safe"
        ELSE IF Contains(t, <<"I","S","O","L","A","T","E","D">>) \/ Contains(t, <<"D","A","N","G","E","R">>) \/ Contains(t, <<"(","2",")">>)
        THEN "danger_small"
        ELSE IF Contains(t, <<"Y","E","L","L","O","W">>) \/ Contains(t, <<"A","M","B","E","R">>)
        THEN "special_small"
        ELSE IF \/ Contains(t, <<"C","A","B","L","E">>) \/ Contains(t, <<"A","N","C","H","O","R">>) \/ Contains(t, <<"R","E","S","E","A","R","C","H">>)
                \/ Contains(t, <<"O","B","S","T","R","U","C","T","I","O","N">>) \/ Contains(t, <<"T","E","M","P">>)
        THEN "special_small"
        ELSE IF Contains(t, <<"R","G">>) \/ Contains(t, <<"R","/","G">>) \/ Contains(t, <<"R","E","D"," ","A","N","D"," ","G","R","E","E","N">>)
        THEN "pref_stbd_small"
        ELSE IF Contains(t, <<"G","R">>) \/ Contains(t, <<"G","/","R">>) \/ Contains(t, <<"G","R","E","E","N"," ","A","N","D"," ","R","E","D">>)
        THEN "pref_port_small"
        ELSE IF Contains(t, <<"R"," ","N","U","N">>) \/ (Contains(t, <<"R","E","D">>) /\ Contains(t, <<"N","U","N">>))
        THEN "stbd_post"
        ELSE IF Contains(t, <<"G"," ","C","A","N">>) \/ (Contains(t, <<"G","R","E","E","N">>) /\ Contains(t, <<"C","A","N">>))
        THEN "port_post"
        ELSE IF Contains(t, <<"R","E","D">>) \/ HasToken(t, <<"R">>)
        THEN "stbd_small"
        ELSE IF Contains(t, <<"G","R","E","E","N">>) \/ HasToken(t, <<"G">>)
        THEN "port_small"
        ELSE IF Contains(t, <<"M","O","O","R">>) \/ Contains(t, <<"A","N","C","H","O","R">>)
        THEN "mooring"
        ELSE "special_small"

----------------------------------------------------------------------------
(* LightsV6.py *)

\* os.path.isdir("black"), read from the working directory
isdir_black == blackDir

V6_infer_buoy_type(chr, struct) ==
    LET text == upper(chr \o <<" ">> \o struct)
    IN  IF Contains(text, <<"C","A","R","D","I","N","A","L">>)
        THEN IF Contains(text, <<"N","O","R","T","H">>) THEN "north_small"
             ELSE IF Contains(text, <<"E","A","S","T">>) THEN "east_small"
             ELSE IF Contains(text, <<"S","O","U","T","H">>) THEN "south_small"
             ELSE IF Contains(text, <<"W","E","S","T">>) THEN "west_small"
             ELSE "north_small"
        ELSE IF \/ Contains(text, <<"M","O","(","A",")">>) \/ Contains(text, <<"M","O","R","S","E"," ","(","A",")">>)
                \/ Contains(text, <<"R","/","W">>) \/ Contains(text, <<"R","W">>)
        THEN "safe"
        ELSE IF Contains(text, <<"I","S","O","L","A","T","E","D">>) \/ Contains(text, <<"D","A","N","G","E","R">>) \/ Contains(text, <<"(","2",")">>)
        THEN (IF isdir_black THEN "black" ELSE "special_post")
        ELSE IF \/ Contains(text, <<"Y","E","L","L","O","W">>) \/ Contains(text, <<"A","M","B","E","R">>)
                \/ Contains(text, <<"R","E","S","E","A","R","C","H">>) \/ Contains(text, <<"C","A","B","L","E">>)
                \/ Contains(text, <<"O","B","S","T","R","U","C","T","I","O","N">>) \/ Contains(text, <<"T","E","M","P">>)
                \/ Contains(text, <<"A","N","C","H","O","R">>)
        THEN "special_small"
        ELSE IF \/ Contains(text, <<"R","G">>) \/ Contains(text, <<"R","/","G">>)
                \/ Contains(text, <<"R","E","D"," ","A","N","D"," ","G","R","E","E","N">>) \/ Contains(text, <<"R","E","D"," ","O","V","E","R"," ","G","R","E","E","N">>)
        THEN "pref_stbd_small"
        ELSE IF \/ Contains(text, <<"G","R">>) \/ Contains(text, <<"G","/","R">>)
                \/ Contains(text, <<"G","R","E","E","N"," ","A","N","D"," ","R","E","D">>) \/ Contains(text, <<"G","R","E","E","N"," ","O","V","E","R"," ","R","E","D">>)
        THEN "pref_port_small"
        ELSE IF Contains(text, <<"R"," ","N","U","N">>) \/ (Contains(text, <<"R","E","D">>) /\ Contains(text, <<"N","U","N">>))
        THEN "stbd_post"
        ELSE IF Contains(text, <<"G"," ","C","A","N">>) \/ (Contains(text, <<"G","R","E","E","N">>) /\ Contains(text, <<"C","A","N">>))
        THEN "port_post"
        ELSE IF Contains(text, <<"R","E","D">>) THEN "stbd_small"
        ELSE IF Contains(text, <<"G","R","E","E","N">>) THEN "port_small"
        ELSE IF Contains(text, <<"M","O","O","R">>) \/ Contains(text, <<"A","N","C","H","O","R">>) THEN "mooring"
        ELSE "other"

V6_extract_color(txt) ==
    LET t == upper(txt)
    IN  IF Contains(t, <<"R","E","D">>) THEN "red"
        ELSE IF Contains(t, <<"G","R","E","E","N">>) THEN "green"
        ELSE IF Contains(t, <<"Y","E","L","L","O","W">>) \/ Contains(t, <<"A","M","B","E","R">>) THEN "yellow"
        ELSE "white"

V6_extract_period_seconds(txt) ==
    NumberUnit(txt, {"s", "S"}, FALSE, Fin(V6_DEFAULT_PERIOD_S * Scale))

\* re.search(r"(\d+(?:\.\d+)?)", txt): the first number of the Range column
V6_extract_range_nm(txt) ==
    LET starts == {i \in 1..Len(txt) : IsDigit(txt[i])}
    IN  IF starts = {} THEN Fin(V6_DEFAULT_RANGE_NM * Scale)
        ELSE LET i == CHOOSE s \in starts : \A s2 \in starts : s <= s2
                 a == DigitsEnd(txt, i)
                 b == IF a + 2 <= Len(txt) /\ txt[a + 1] = "." /\ IsDigit(txt[a + 2])
                      THEN DigitsEnd(txt, a + 2) ELSE a
             IN  float(txt, i, a, b)

\* float(txt) of the Height column, the default when it raises; of Python's float
\* syntax the model reads digits with an optional fraction
V6_extract_height_m(txt) ==
    IF txt # <<>> /\ IsDigit(txt[1])
    THEN LET a == DigitsEnd(txt, 1)
             b == IF a + 2 <= Len(txt) /\ txt[a + 1] = "." /\ IsDigit(txt[a + 2])
                  THEN DigitsEnd(txt, a + 2) ELSE a
         IN  IF b = Len(txt) THEN float(txt, 1, a, b) ELSE Fin(V6_DEFAULT_HEIGHT_M * Scale)
    ELSE Fin(V6_DEFAULT_HEIGHT_M * Scale)

V6_sequence(ch, period) ==
    LET rt == RoundTicks(period)
        ticks == Clamp(rt.val)
        up == upper(ch)
    IN  IF rt.exc # "none" THEN rt
        ELSE IF Contains(up, <<"F","L">>)
        THEN LET on == Max(1, RoundHalfEven(5 * TicksPerSecond, 10))
             IN  Return(Rep("L", on) \o Rep("D", ticks - on))
        ELSE IF Contains(up, <<"I","S","O">>)
        THEN Return(Rep("L", ticks \div 2) \o Rep("D", ticks - ticks \div 2))
        ELSE IF Contains(up, <<"O","C">>)
        THEN LET on == RoundHalfEven(6 * ticks, 10)
             IN  Return(Rep("L", on) \o Rep("D", ticks - on))
        ELSE Return(<<"L">>)

----------------------------------------------------------------------------
(* Inputs *)

\* rhythm, colour and period tokens of a light characteristic
LightPieces == {
    <<"F","l">>, <<"L","F","l">>, <<"F","F","l">>, <<"I","S","O">>, <<"O","c">>, <<"Q">>, <<"V","Q">>,
    <<"R">>, <<"G">>, <<"R","e","d">>, <<"G","r","e","e","n">>,
    <<"4","s">>, <<"2",".","2","5","s">>, <<"0",".","5","s">>, <<"2","5","s">>, <<"0",".","7","5","s">>, <<"1",".","1","2","5","s">>, <<HugeDigits,"s">>
}

\* mark and structure keywords
TypePieces == {
    <<"C","a","r","d","i","n","a","l">>, <<"N","o","r","t","h">>, <<"E","a","s","t">>, <<"R","/","W">>, <<"D","A","N","G","E","R">>,
    <<"R","e","d">>, <<"G","r","e","e","n">>, <<"R">>, <<"G">>, <<"N","U","N">>, <<"C","A","N">>, <<"M","O","O","R","I","N","G">>, <<"A","N","C","H","O","R","A","G","E">>
}

\* whole characteristic texts: the scenarios of the specification and their kin
Scenarios == {
    <<"F","l"," ","W"," ","4","s"," ","6","M">>, <<"I","S","O"," ","R"," ","2","s">>, <<"L","F","l"," ","2","s">>, <<"M","o","(","A",")"," ","R","/","W">>, <<"R","a","n","g","e"," ","6","M">>,
    <<"R","e","d"," ","a","n","d"," ","G","r","e","e","n"," ","l","i","g","h","t">>, <<"R","E","D"," ","N","U","N">>, <<"G","R","E","E","N"," ","C","A","N">>, <<"M","O","O","R","I","N","G"," ","B","U","O","Y">>,
    <<"A","N","C","H","O","R","A","G","E"," ","B","U","O","Y">>, <<"I","S","O","L","A","T","E","D"," ","D","A","N","G","E","R">>, <<"C","a","r","d","i","n","a","l"," ","W","e","s","t"," ","S","o","u","t","h">>, <<"C","a","r","d","i","n","a","l"," ","W","e","s","t">>,
    <<"R","E","D"," ","A","N","D"," ","G","R","E","E","N"," ","N","U","N">>, <<"W","h","i","t","e"," ","a","n","d"," ","R","e","d"," ","s","e","c","t","o","r","s">>, <<"F","l"," ","A","m","b","e","r"," ","4","s">>,
    <<"1","2","m">>, <<"P","I","E","R"," ","N","U","N">>, <<"R"," ","G"," ","C","A","N">>, <<"F","l"," ","W"," ","0",".","5","s">>, <<"F","l"," ","R"," ","4","s"," ","9","m"," ","5","M">>
}

RECURSIVE Join(_)
Join(ps) == IF ps = <<>> THEN <<>>
            ELSE IF Len(ps) = 1 THEN ps[1]
            ELSE ps[1] \o <<" ">> \o Join(Tail(ps))

\* every text of at most MaxPieces pieces of P, joined by single blanks
TextsOf(P) == {Join(ps) : ps \in UNION {[1..n -> P] : n \in 0..MaxPieces}}

\* the decimal numeral of n, n < 100
DigitChar == <<"0", "1", "2", "3", "4", "5", "6", "7", "8", "9">>

Numeral(n) == IF n < 10 THEN <<DigitChar[n + 1]>>
              ELSE <<DigitChar[(n \div 10) + 1], DigitChar[(n % 10) + 1]>>

\* the numeral of k quarters of a second
Quarters(k) ==
    Numeral(k \div 4) \o (IF k % 4 = 1 THEN <<".","2","5">>
                          ELSE IF k % 4 = 2 THEN <<".","5">>
                          ELSE IF k % 4 = 3 THEN <<".","7","5">>
                          ELSE <<>>)

RhythmTokens == {<<"F","l">>, <<"L","F","l">>, <<"I","S","O">>, <<"O","c">>, <<"Q">>, <<"V","Q">>}

\* every rhythm with every period of a whole number of ticks, up to MaxQuarters
PeriodTexts == {r \o <<" ">> \o Quarters(k) \o <<"s">> : r \in RhythmTokens, k \in 1..MaxQuarters}

Texts == Scenarios \cup TextsOf(LightPieces) \cup TextsOf(TypePieces) \cup PeriodTexts

\* the other columns of a LightsV6 CSV row: Structure, Height, Range
Rows == {
    [struct |-> <<>>, height |-> <<>>, range |-> <<>>],
    [struct |-> <<"N","U","N">>, height |-> <<"1","2">>, range |-> <<"6",".","5">>],
    [struct |-> <<"C","A","N">>, height |-> <<"n","/","a">>, range |-> <<"1","0"," ","M">>]
}

NoOut == [variant |-> "none"]

----------------------------------------------------------------------------
(* The converters: each action converts the record whose characteristic is char *)

Init ==
    /\ char \in Texts
    /\ blackDir \in BOOLEAN
    /\ out = NoOut
    /\ parser = "none" /\ lines = <<>> /\ ix = 1 /\ entries = <<>>
    /\ reader = {} /\ inside = <<>>

\* Lights.main, the loop body and the written light
L1_main ==
    /\ out = NoOut
    /\ LET color == L1_extract_color(char)
           period == L1_extract_period_seconds(char)
           rng == L1_extract_range_nm(char)
           ch == L1_extract_char(char)
           seq == L1_sequence(ch, period)
       IN  out' = IF seq.exc # "none"
                  THEN [variant |-> "L1", exc |-> seq.exc]
                  ELSE [variant |-> "L1", exc |-> "none", type |-> "Special",
                        color |-> color, period |-> period, rng |-> rng,
                        ch |-> ch, seq |-> seq.val]
    /\ UNCHANGED <<char, blackDir, parseVars, csvVars>>

\* LightsV2.write_buoy_ini and write_light_ini, one record
V2_write_light_ini ==
    /\ out = NoOut
    /\ LET color == V2_extract_color(char)
           period == V2_extract_period_seconds(char)
           rng == V2_extract_range_nm(char)
           ch == V2_extract_char_key(char)
           seq == V2_sequence(ch, period)
       IN  out' = IF seq.exc # "none"
                  THEN [variant |-> "V2", exc |-> seq.exc, type |-> "Special"]
                  ELSE [variant |-> "V2", exc |-> "none", type |-> "Special",
                        color |-> color, period |-> period, rng |-> rng,
                        ch |-> ch, seq |-> seq.val]
    /\ UNCHANGED <<char, blackDir, parseVars, csvVars>>

\* LightsV3.write_buoy_ini and write_light_ini, one record
V3_write_light_ini ==
    /\ out = NoOut
    /\ LET color == V3_extract_color(char)
           period == V3_extract_period_seconds(char)
           rng == V3_extract_range_nm(char)
           ch == V3_extract_char_key(char)
           seq == V3_sequence(ch, period)
       IN  out' = IF seq.exc # "none"
                  THEN [variant |-> "V3", exc |-> seq.exc, type |-> "Special"]
                  ELSE [variant |-> "V3", exc |-> "none", type |-> "Special",
                        color |-> color, period |-> period, rng |-> rng,
                        ch |-> ch, seq |-> seq.val]
    /\ UNCHANGED <<char, blackDir, parseVars, csvVars>>

\* LightsV5.main, one row: Buoy.ini is written before the lights are computed
V5_main ==
    /\ out = NoOut
    /\ LET btype == V5_infer_type(char)
           color == V5_extract_color(char)
           period == V5_extract_period_seconds(char)
           rng == V5_extract_range_nm(char)
           hgt == V5_extract_height_m(char)
           seq == V5_sequence(char, period)
       IN  out' = IF seq.exc # "none"
                  THEN [variant |-> "V5", exc |-> seq.exc, type |-> btype]
                  ELSE [variant |-> "V5", exc |-> "none", type |-> btype,
                        color |-> color, period |-> period, rng |-> rng,
                        hgt |-> hgt, seq |-> seq.val]
    /\ UNCHANGED <<char, blackDir, parseVars, csvVars>>

\* LightsV6.main, one row; the converter may be run again on the same row
V6_main ==
    \E row \in Rows :
        /\ out = NoOut \/ (out.variant = "V6" /\ out.row = row)
        /\ LET height == V6_extract_height_m(row.height)
               rng == V6_extract_range_nm(row.range)
               buoy_type == V6_infer_buoy_type(char, row.struct)
               color == V6_extract_color(char \o <<" ">> \o row.struct)
               period == V6_extract_period_seconds(char)
               seq == V6_sequence(char, period)
           IN  out' = IF seq.exc # "none"
                      THEN [variant |-> "V6", exc |-> seq.exc, row |-> row]
                      ELSE [variant |-> "V6", exc |-> "none", row |-> row,
                            type |-> buoy_type, color |-> color, height |-> height,
                            rng |-> rng, seq |-> seq.val]
        /\ UNCHANGED <<char, blackDir, parseVars, csvVars>>

\* the environment creates the directory "black" in the working directory
mkdir_black ==
    /\ ~blackDir
    /\ blackDir' = TRUE
    /\ UNCHANGED <<char, out, parseVars, csvVars>>

\* the environment removes it
rmdir_black ==
    /\ blackDir
    /\ blackDir' = FALSE
    /\ UNCHANGED <<char, out, parseVars, csvVars>>

Next ==
    \/ L1_main
    \/ V2_write_light_ini
    \/ V3_write_light_ini
    \/ V5_main
    \/ V6_main
    \/ mkdir_black
    \/ rmdir_black

Spec == Init /\ [][Next]_vars


----------------------------------------------------------------------------
(* The two-line parser of LightsV2 and LightsV3 *)

\* A line is the sequence of the hemisphere letters of its DMS tokens, in the
\* order they stand on the line; DMS_RE.search returns the first of them.
DMS_RE_search(line) == IF line = <<>> THEN "none" ELSE Head(line)

\* latm and latm.group(4).upper() in ("N", "S")
IsLatLine(line) == DMS_RE_search(line) \in {"N", "S"}

\* lonm and lonm.group(4).upper() in ("E", "W")
IsLonLine(line) == DMS_RE_search(line) \in {"E", "W"}

\* the inner loop: the first line after line a with a longitude token, 0 if none
NextLonLine(ls, a) ==
    LET js == {j \in (a + 1)..Len(ls) : IsLonLine(ls[j])}
    IN  IF js = {} THEN 0 ELSE CHOOSE j \in js : \A k \in js : j <= k

\* one pass of the outer loop; an entry is kept by the lines its latitude and
\* its longitude (and with them its name and characteristic) are read from
parse_iteration ==
    /\ ix <= Len(lines)
    /\ IF IsLatLine(lines[ix])
       THEN LET j == NextLonLine(lines, ix)
            IN  IF j # 0
                THEN /\ entries' = Append(entries, [lat |-> ix, lon |-> j])
                     /\ ix' = j + 1
                ELSE /\ entries' = entries
                     /\ ix' = ix + 1
       ELSE /\ entries' = entries
            /\ ix' = ix + 1
    /\ UNCHANGED <<char, blackDir, out, parser, lines, csvVars>>

\* LightsV2.parse_file
V2_parse_file == parser = "V2" /\ parse_iteration

\* LightsV3.parse_text_two_line_format
V3_parse_text_two_line_format == parser = "V3" /\ parse_iteration

\* the lines a file can have
LineKinds == {<<>>, <<"N">>, <<"S">>, <<"E">>, <<"W">>, <<"N", "W">>}

Files == UNION {[1..n -> LineKinds] : n \in 0..MaxLines}

ParseInit ==
    /\ parser \in {"V2", "V3"}
    /\ lines \in Files
    /\ ix = 1 /\ entries = <<>>
    /\ char = <<>> /\ blackDir = FALSE /\ out = NoOut
    /\ reader = {} /\ inside = <<>>

ParseNext == V2_parse_file \/ V3_parse_text_two_line_format

ParseSpec == ParseInit /\ [][ParseNext]_vars

\* the parser has returned
Parsed == parser # "none" /\ ix > Len(lines)

----------------------------------------------------------------------------
(* LightsV6.main over a whole CSV file *)

\* the characteristics of the rows of the file
CsvTexts == Scenarios \cup TextsOf(TypePieces)

\* the rows of the file: the columns Characteristic, Structure, Height, Range
CsvRows == {[Characteristic |-> c, Structure |-> r.struct,
             Height |-> r.height, Range |-> r.range] : c \in CsvTexts, r \in Rows}

\* one pass of the loop over the rows, which are read in the order of the file;
\* an exception of sequence ends the run
V6_main_row ==
    /\ reader # {}
    /\ LET row == CHOOSE r \in reader : TRUE
           height == V6_extract_height_m(row.Height)
           rng == V6_extract_range_nm(row.Range)
           buoy_type == V6_infer_buoy_type(row.Characteristic, row.Structure)
           color == V6_extract_color(row.Characteristic \o <<" ">> \o row.Structure)
           period == V6_extract_period_seconds(row.Characteristic)
           seq == V6_sequence(row.Characteristic, period)
       IN  IF seq.exc # "none"
           THEN /\ reader' = {}
                /\ inside' = <<[exc |-> seq.exc]>>
           ELSE /\ reader' = reader \ {row}
                /\ inside' = Append(inside, [exc |-> "none", type |-> buoy_type,
                                               color |-> color, height |-> height,
                                               rng |-> rng, seq |-> seq.val])
    /\ UNCHANGED <<char, blackDir, out, parseVars>>

CsvInit ==
    /\ reader = CsvRows /\ inside = <<>>
    /\ blackDir \in BOOLEAN
    /\ char = <<>> /\ out = NoOut
    /\ parser = "none" /\ lines = <<>> /\ ix = 1 /\ entries = <<>>

CsvNext == V6_main_row

CsvSpec == CsvInit /\ [][CsvNext]_vars

\* LightsV6.main has read the whole file
CsvRead == reader = {} /\ inside # <<>>
----------------------------------------------------------------------------
(* Vocabulary of the claims *)

Light23 == out.variant \in {"V2", "V3"} /\ out.exc = "none"

\* the period the flash pattern is built on: 4.0 replaces a period of at most 0.5 s
EffectivePeriod(period) == IF 2 * period.v > Scale THEN period ELSE Fin(4 * Scale)

\* clamp(round(period / 0.25), 4, 80)
TickCount(period) == Max(4, Min(80, RoundHalfEven(4 * period.v, Scale)))

\* the period LightsV2 / LightsV3 read from the text of the record
Period23 == IF out.variant = "V2" THEN V2_extract_period_seconds(char)
            ELSE V3_extract_period_seconds(char)

\* s is n lit ticks followed by m dark ticks
LitDark(s, n, m) ==
    /\ Len(s) = n + m
    /\ \A k \in 1..Len(s) : s[k] = (IF k <= n THEN "L" ELSE "D")

----------------------------------------------------------------------------
(* C1 *)

----------------------------------------------------------------------------
(* C2 *)

\* C2: the LightsV3 chain completes for every characteristic text, with a colour
\* of the palette, a finite period and range, a class key and a non-empty
\* pattern over L and D, and the empty text yields the defaults.
C2_Totality ==
    out.variant = "V3" =>
        /\ out.exc = "none"
        /\ out.color \in {"white", "red", "green", "yellow", "blue"}
        /\ ~out.period.inf /\ ~out.rng.inf
        /\ out.ch \in {<<"F","L">>, <<"L","F","L">>, <<"I","S","O">>, <<"O","C">>, <<"Q">>, <<"V","Q">>, <<"F","I","X">>, <<"F","F","L">>}
        /\ out.seq # <<>> /\ \A k \in 1..Len(out.seq) : out.seq[k] \in {"L", "D"}
        /\ char = <<>> =>
             /\ out.color = "white" /\ out.period = Fin(4 * Scale)
             /\ out.rng = Fin(6 * Scale) /\ out.ch = <<"F","I","X">>

----------------------------------------------------------------------------
(* C3 *)

\* C3: two calls of LightsV6.infer_buoy_type with the same characteristic and
\* the same structure return the same tag, whatever the environment does between
\* them.
C3_SameArgumentsSameTag ==
    [][(/\ out.variant = "V6" /\ out.exc = "none"
        /\ out'.variant = "V6" /\ out'.exc = "none"
        /\ out'.row.struct = out.row.struct /\ char' = char)
       => out'.type = out.type]_vars

----------------------------------------------------------------------------
(* C4 *)

ColourWordOf == [white |-> <<"w","h","i","t","e">>, red |-> <<"r","e","d">>, green |-> <<"g","r","e","e","n">>,
                 yellow |-> <<"y","e","l","l","o","w">>, blue |-> <<"b","l","u","e">>]

HasColourWord(text) ==
    \/ \E c \in DOMAIN ColourWordOf : Contains(lower(text), ColourWordOf[c])
    \/ Contains(lower(text), <<"a","m","b","e","r">>)

\* a colour letter stands alone in the text, in either case
HasColourLetter(text) ==
    \E c \in {"R", "G", "Y", "W", "B"} : HasToken(upper(text), <<c>>)

\* C4: in Lights.py, LightsV3 and LightsV5 a colour letter decides the colour only
\* as a standalone token: a text with no colour word and no standalone colour
\* letter, such as "Range 6M", is white.
C4_WordBoundary ==
    (out.variant \in {"L1", "V3", "V5"} /\ out.exc = "none") =>
        /\ (~HasColourWord(char) /\ ~HasColourLetter(char)) => out.color = "white"
        /\ char = <<"R","a","n","g","e"," ","6","M">> => out.color = "white"

----------------------------------------------------------------------------
(* C5 *)

\* C5: in LightsV2 and LightsV3, when the text contains a colour word the colour
\* returned is that of a colour word of the text, whatever standalone colour
\* letters it has; "Red and Green light" is red.
C5_WordsBeatLetters ==
    Light23 =>
        /\ (\E c \in DOMAIN ColourWordOf : Contains(lower(char), ColourWordOf[c]))
             => Contains(lower(char), ColourWordOf[out.color])
        /\ char = <<"R","e","d"," ","a","n","d"," ","G","r","e","e","n"," ","l","i","g","h","t">> => out.color = "red"

\* LightsV3 read a text with the word Red and the standalone letter G as red
C5_Witness ==
    /\ out.variant = "V3" /\ out.exc = "none"
    /\ Contains(lower(char), <<"r","e","d">>) /\ HasToken(char, <<"G">>)
    /\ out.color = "red"

----------------------------------------------------------------------------
(* C6 *)

\* C6: in LightsV2 and LightsV3 a text with the standalone token LFL (any case)
\* and no standalone ISO or OC has class LFL, and its pattern is the long flash,
\* min(8, ticks - 1) lit ticks and the rest dark, not 2 lit ticks.
C6_LongFlash ==
    (/\ Light23
     /\ HasToken(lower(char), <<"l","f","l">>)
     /\ ~HasToken(lower(char), <<"i","s","o">>) /\ ~HasToken(lower(char), <<"o","c">>))
    => /\ out.ch = <<"L","F","L">>
       /\ LET ticks == TickCount(EffectivePeriod(out.period))
              lit == Min(8, ticks - 1)
          IN  /\ LitDark(out.seq, lit, ticks - lit)
              /\ ~LitDark(out.seq, 2, ticks - 2)

\* "LFl 2s" in LightsV3: 7 lit ticks and 1 dark
C6_Witness ==
    /\ out.variant = "V3" /\ out.exc = "none"
    /\ char = <<"L","F","l"," ","2","s">>
    /\ out.ch = <<"L","F","L">> /\ out.seq = <<"L","L","L","L","L","L","L","D">>

----------------------------------------------------------------------------
(* C7 *)

\* s is "LD" repeated n times
Alternating(s, n) ==
    /\ Len(s) = 2 * n
    /\ \A k \in 1..Len(s) : s[k] = (IF k % 2 = 1 THEN "L" ELSE "D")

\* C7: LightsV5 turns "Q G" into colour green, period 4.0, "LD" repeated 8 times
\* and type port_small, and gives every text whose rhythm token is Q or VQ an
\* alternating pattern.
C7_ScenarioQG ==
    out.variant = "V5" =>
        /\ char = <<"Q"," ","G">> =>
             /\ out.exc = "none" /\ out.color = "green"
             /\ out.period = Fin(4 * Scale)
             /\ Alternating(out.seq, 8)
             /\ out.type = "port_small"
        /\ (/\ out.exc = "none"
            /\ HasToken(upper(char), <<"Q">>) \/ HasToken(upper(char), <<"V","Q">>))
           => \E n \in 1..40 : Alternating(out.seq, n)

----------------------------------------------------------------------------
(* C8, C9, C10: the classification list of LightsV5 and LightsV6 *)

\* a type was inferred for the record
Typed == out.variant = "V5" \/ (out.variant = "V6" /\ out.exc = "none")

\* the upper-cased text the type is inferred from
TypeText == IF out.variant = "V5" THEN upper(char)
            ELSE upper(char \o <<" ">> \o out.row.struct)

CardinalKeyword(t) == Contains(t, <<"C","A","R","D","I","N","A","L">>)

SafeWaterKeyword(t) ==
    \E k \in {<<"M","O","(","A",")">>, <<"M","O","R","S","E"," ","(","A",")">>, <<"R","/","W">>, <<"R","W">>} : Contains(t, k)

DangerKeyword(t) ==
    \E k \in {<<"I","S","O","L","A","T","E","D">>, <<"D","A","N","G","E","R">>, <<"(","2",")">>} : Contains(t, k)

YellowKeyword(t) == Contains(t, <<"Y","E","L","L","O","W">>) \/ Contains(t, <<"A","M","B","E","R">>)

SpecialPurposeKeyword(t) ==
    \E k \in {<<"C","A","B","L","E">>, <<"A","N","C","H","O","R">>, <<"R","E","S","E","A","R","C","H">>, <<"O","B","S","T","R","U","C","T","I","O","N">>, <<"T","E","M","P">>} : Contains(t, k)

\* the text describes a red/green combination
CombinationDescription(t) ==
    \/ \E k \in {<<"R","/","G">>, <<"G","/","R">>, <<"R","E","D"," ","A","N","D"," ","G","R","E","E","N">>, <<"G","R","E","E","N"," ","A","N","D"," ","R","E","D">>,
                 <<"R","E","D"," ","O","V","E","R"," ","G","R","E","E","N">>, <<"G","R","E","E","N"," ","O","V","E","R"," ","R","E","D">>} : Contains(t, k)
    \/ HasToken(t, <<"R","G">>) \/ HasToken(t, <<"G","R">>)
    \/ Contains(t, <<"R","E","D">>) /\ Contains(t, <<"G","R","E","E","N">>)

\* C8: a text that names red with a nun is stbd_post and one that names green
\* with a can is port_post, unless it is a cardinal, safe-water, isolated-danger,
\* special-purpose or red/green-combination description.
C8_Rule7 ==
    Typed =>
        LET t == TypeText
        IN  (/\ ~CardinalKeyword(t) /\ ~SafeWaterKeyword(t) /\ ~DangerKeyword(t)
             /\ ~YellowKeyword(t) /\ ~SpecialPurposeKeyword(t)
             /\ ~CombinationDescription(t))
            => /\ (Contains(t, <<"R","E","D">>) /\ Contains(t, <<"N","U","N">>)) => out.type = "stbd_post"
               /\ (Contains(t, <<"G","R","E","E","N">>) /\ Contains(t, <<"C","A","N">>)) => out.type = "port_post"

\* a keyword of the red and green rules 5 to 8, as the variant tests it
RedGreenKeyword(t) ==
    \/ \E k \in {<<"R","E","D">>, <<"G","R","E","E","N">>, <<"R","G">>, <<"G","R">>, <<"R","/","G">>, <<"G","/","R">>, <<"R"," ","N","U","N">>, <<"G"," ","C","A","N">>} :
          Contains(t, k)
    \/ out.variant = "V5" /\ (HasToken(t, <<"R">>) \/ HasToken(t, <<"G">>))

\* C9, as stated: a text with MOOR or ANCHOR and no cardinal, safe-water, danger,
\* yellow/amber or red/green keyword is a mooring.
C9_Rule9AsStated ==
    Typed =>
        LET t == TypeText
        IN  (/\ Contains(t, <<"M","O","O","R">>) \/ Contains(t, <<"A","N","C","H","O","R">>)
             /\ ~CardinalKeyword(t) /\ ~SafeWaterKeyword(t) /\ ~DangerKeyword(t)
             /\ ~YellowKeyword(t) /\ ~RedGreenKeyword(t))
            => out.type = "mooring"

\* C9, amended: a text with MOOR and no keyword of rules 1 to 8 (ANCHOR and the
\* other special-purpose keywords among them) is a mooring; a text with ANCHOR
\* and no cardinal, safe-water or danger keyword is special_small.
C9_Rule9 ==
    Typed =>
        LET t == TypeText
        IN  /\ (/\ Contains(t, <<"M","O","O","R">>)
                /\ ~CardinalKeyword(t) /\ ~SafeWaterKeyword(t) /\ ~DangerKeyword(t)
                /\ ~YellowKeyword(t) /\ ~SpecialPurposeKeyword(t)
                /\ ~RedGreenKeyword(t))
               => out.type = "mooring"
            /\ (/\ Contains(t, <<"A","N","C","H","O","R">>)
                /\ ~CardinalKeyword(t) /\ ~SafeWaterKeyword(t) /\ ~DangerKeyword(t))
               => out.type = "special_small"

\* LightsV5 classified "MOORING BUOY" as a mooring
C9_Witness ==
    /\ out.variant = "V5"
    /\ char = <<"M","O","O","R","I","N","G"," ","B","U","O","Y">>
    /\ out.type = "mooring"

\* C10: a text with CARDINAL gets the tag of the first of NORTH, EAST, SOUTH,
\* WEST it contains, north_small when it contains none, whatever else it
\* contains.
C10_Cardinal ==
    Typed =>
        LET t == TypeText
        IN  Contains(t, <<"C","A","R","D","I","N","A","L">>) =>
               out.type = (IF Contains(t, <<"N","O","R","T","H">>) THEN "north_small"
                           ELSE IF Contains(t, <<"E","A","S","T">>) THEN "east_small"
                           ELSE IF Contains(t, <<"S","O","U","T","H">>) THEN "south_small"
                           ELSE IF Contains(t, <<"W","E","S","T">>) THEN "west_small"
                           ELSE "north_small")

\* LightsV5 classified "Cardinal East" as east_small
C10_Witness ==
    /\ out.variant = "V5"
    /\ char = <<"C","a","r","d","i","n","a","l"," ","E","a","s","t">>
    /\ out.type = "east_small"


----------------------------------------------------------------------------
(* C11 *)

LateralTags == {"stbd_post", "port_post", "stbd_small", "port_small"}

\* rule 5 and rule 6 of LightsV5.infer_type, as it tests them
PrefStbdKeyword(t) ==
    \E k \in {<<"R","G">>, <<"R","/","G">>, <<"R","E","D"," ","A","N","D"," ","G","R","E","E","N">>} : Contains(t, k)

PrefPortKeyword(t) ==
    \E k \in {<<"G","R">>, <<"G","/","R">>, <<"G","R","E","E","N"," ","A","N","D"," ","R","E","D">>} : Contains(t, k)

\* C11: LightsV5.infer_type returns a lateral tag only for a text that satisfies
\* none of the predicates of rules 1 to 6; a text with a safe-water marker and no
\* CARDINAL is safe whatever colour tokens it has; a text with RED AND GREEN and
\* no keyword of rules 1 to 4 is pref_stbd_small.
C11_FirstMatchWins ==
    out.variant = "V5" =>
        LET t == upper(char)
        IN  /\ out.type \in LateralTags =>
                 /\ ~CardinalKeyword(t) /\ ~SafeWaterKeyword(t) /\ ~DangerKeyword(t)
                 /\ ~YellowKeyword(t) /\ ~SpecialPurposeKeyword(t)
                 /\ ~PrefStbdKeyword(t) /\ ~PrefPortKeyword(t)
            /\ (SafeWaterKeyword(t) /\ ~CardinalKeyword(t)) => out.type = "safe"
            /\ char = <<"M","o","(","A",")"," ","R","/","W">> => out.type = "safe"
            /\ (/\ Contains(t, <<"R","E","D"," ","A","N","D"," ","G","R","E","E","N">>)
                /\ ~CardinalKeyword(t) /\ ~SafeWaterKeyword(t) /\ ~DangerKeyword(t)
                /\ ~YellowKeyword(t) /\ ~SpecialPurposeKeyword(t))
               => out.type = "pref_stbd_small"

\* LightsV5 classified a red and green nun as preferred channel to starboard
C11_Witness ==
    /\ out.variant = "V5"
    /\ char = <<"R","E","D"," ","A","N","D"," ","G","R","E","E","N"," ","N","U","N">>
    /\ out.type = "pref_stbd_small"

----------------------------------------------------------------------------
(* C12 *)

\* the colour words in the stated order of priority, amber standing for yellow
ColourWordOrder == <<
    [word |-> <<"r","e","d">>, color |-> "red"], [word |-> <<"g","r","e","e","n">>, color |-> "green"],
    [word |-> <<"y","e","l","l","o","w">>, color |-> "yellow"], [word |-> <<"a","m","b","e","r">>, color |-> "yellow"],
    [word |-> <<"w","h","i","t","e">>, color |-> "white"], [word |-> <<"b","l","u","e">>, color |-> "blue"] >>

\* C12: in LightsV2 and LightsV3 the colour of a text with colour words is that
\* of the first word present in the order red, green, yellow or amber, white,
\* blue; a text with both white and red is red.
C12_ColourWordPriority ==
    Light23 =>
        LET t == lower(char)
        IN  \A k \in 1..Len(ColourWordOrder) :
                (/\ Contains(t, ColourWordOrder[k].word)
                 /\ \A j \in 1..(k - 1) : ~Contains(t, ColourWordOrder[j].word))
                => out.color = ColourWordOrder[k].color

----------------------------------------------------------------------------
(* C13 *)

\* the text has a number followed by the letter u as a token
HasNumberUnit(text, u) == NumberUnit(text, {u}, TRUE, Inf) # Inf

\* C13: in LightsV5 a text whose only number-plus-M token is an uppercase range
\* token has that number as range and the default height, and a text whose only
\* such token is a lowercase metre token has that number as height and the
\* default range; "Fl W 4s 6M" has range 6 and height 10, "12m" has height 12
\* and range 10.
C13_RangeAndHeight ==
    (out.variant = "V5" /\ out.exc = "none") =>
        /\ (HasNumberUnit(char, "M") /\ ~HasNumberUnit(char, "m")) =>
              /\ out.rng = NumberUnit(char, {"M"}, TRUE, Inf)
              /\ out.hgt = Fin(V5_DEFAULT_HEIGHT_M * Scale)
        /\ (HasNumberUnit(char, "m") /\ ~HasNumberUnit(char, "M")) =>
              /\ out.hgt = NumberUnit(char, {"m"}, TRUE, Inf)
              /\ out.rng = Fin(V5_DEFAULT_RANGE_NM * Scale)
        /\ char = <<"F","l"," ","W"," ","4","s"," ","6","M">> =>
              out.rng = Fin(6 * Scale) /\ out.hgt = Fin(V5_DEFAULT_HEIGHT_M * Scale)
        /\ char = <<"1","2","m">> =>
              out.hgt = Fin(12 * Scale) /\ out.rng = Fin(V5_DEFAULT_RANGE_NM * Scale)

----------------------------------------------------------------------------
(* C14 *)

\* the text has no number followed by s
PeriodAbsent(text) == NumberUnit(text, {"s", "S"}, FALSE, Inf) = Inf

\* C14: in LightsV3 and LightsV5, when the period read from the text is absent
\* or at most 0.5 s the pattern is the one of the default period 4.0 s, on 16
\* ticks: "Fl W 0.5s" gives 2 lit and 14 dark ticks.
C14_NoiseThreshold ==
    (out.variant \in {"V3", "V5"} /\ out.exc = "none") =>
        /\ PeriodAbsent(char) => out.period = Fin(4 * Scale)
        /\ (PeriodAbsent(char) \/ 2 * out.period.v <= Scale) =>
              out.seq = (IF out.variant = "V3"
                         THEN V3_sequence(out.ch, Fin(4 * Scale)).val
                         ELSE V5_sequence(char, Fin(4 * Scale)).val)
        /\ char = <<"F","l"," ","W"," ","0",".","5","s">> => LitDark(out.seq, 2, 14)

----------------------------------------------------------------------------
(* C15 *)

\* C15: for class FL, LightsV2 and LightsV3 return 2 lit ticks followed by
\* ticks - 2 dark ticks, ticks = clamp(round(P/0.25), 4, 80) for P the period
\* after the noise replacement; "Fl W 4s 6M" is white, period 4.0, range 6.0,
\* class FL, LL followed by 14 D.
C15_Flash ==
    Light23 =>
        /\ out.ch = <<"F","L">> =>
              LET ticks == TickCount(EffectivePeriod(out.period))
              IN  LitDark(out.seq, 2, ticks - 2)
        /\ char = <<"F","l"," ","W"," ","4","s"," ","6","M">> =>
              /\ out.color = "white" /\ out.period = Fin(4 * Scale)
              /\ out.rng = Fin(6 * Scale) /\ out.ch = <<"F","L">>
              /\ out.seq = <<"L","L","D","D","D","D","D","D","D","D","D","D","D","D","D","D">>

\* LightsV2 built the flash of a 0.5 s period on the 16 ticks of the default
C15_Witness ==
    /\ out.variant = "V2" /\ out.exc = "none"
    /\ out.ch = <<"F","L">> /\ out.period = Fin(Scale \div 2)
    /\ LitDark(out.seq, 2, 14)

----------------------------------------------------------------------------
(* C16 *)

\* C16: for class ISO, LightsV3 returns ticks div 2 lit ticks followed by the
\* remaining dark ticks: equal phases for an even tick count, one dark tick more
\* for an odd one; "ISO R 2s" is red, period 2.0, LLLLDDDD, and LightsV5 gives
\* the same pattern with type stbd_small.
C16_Isophase ==
    /\ (out.variant = "V3" /\ out.exc = "none") =>
          /\ out.ch = <<"I","S","O">> =>
                LET ticks == TickCount(EffectivePeriod(out.period))
                    lit == Cardinality({k \in 1..Len(out.seq) : out.seq[k] = "L"})
                    dark == Cardinality({k \in 1..Len(out.seq) : out.seq[k] = "D"})
                IN  /\ LitDark(out.seq, ticks \div 2, ticks - ticks \div 2)
                    /\ lit + dark = ticks
                    /\ ticks % 2 = 0 => lit = dark
                    /\ ticks % 2 = 1 => dark = lit + 1
          /\ char = <<"I","S","O"," ","R"," ","2","s">> =>
                /\ out.color = "red" /\ out.period = Fin(2 * Scale)
                /\ out.ch = <<"I","S","O">> /\ out.seq = <<"L","L","L","L","D","D","D","D">>
    /\ (out.variant = "V5" /\ char = <<"I","S","O"," ","R"," ","2","s">>) =>
          /\ out.exc = "none" /\ out.seq = <<"L","L","L","L","D","D","D","D">>
          /\ out.type = "stbd_small"

\* LightsV3 gave the odd tick of a 2.25 s isophase light to the dark phase
C16_Witness ==
    /\ out.variant = "V3" /\ out.exc = "none"
    /\ out.ch = <<"I","S","O">> /\ out.period = Fin(2 * Scale + Scale \div 4)
    /\ out.seq = <<"L","L","L","L","D","D","D","D","D">>

----------------------------------------------------------------------------
(* C17 *)

\* 0.6 * ticks rounded to the nearest integer; 6 * ticks is even, so no tie
SixTenths(ticks) == (6 * ticks + 5) \div 10

\* C17, as stated: for class OC, LightsV2 and LightsV3 return lit ticks followed
\* by dark ticks, lit = 0.6 * ticks rounded to the nearest integer, with
\* lit + dark = ticks, lit > dark and at least one dark tick.
C17_OccultingAsStated ==
    (Light23 /\ out.ch = <<"O","C">>) =>
        LET ticks == TickCount(EffectivePeriod(out.period))
            lit == SixTenths(ticks)
            dark == ticks - lit
        IN  /\ LitDark(out.seq, lit, dark)
            /\ lit + dark = ticks
            /\ lit > dark
            /\ dark >= 1

\* C17, amended: as above, with lit >= dark, and lit > dark exactly when
\* ticks >= 5: on 4 ticks the pattern is 2 lit and 2 dark.
C17_Occulting ==
    (Light23 /\ out.ch = <<"O","C">>) =>
        LET ticks == TickCount(EffectivePeriod(out.period))
            lit == SixTenths(ticks)
            dark == ticks - lit
        IN  /\ LitDark(out.seq, lit, dark)
            /\ lit + dark = ticks
            /\ lit >= dark
            /\ lit > dark <=> ticks >= 5
            /\ dark >= 1

\* LightsV3 gave an occulting light of 1 s as many lit ticks as dark ones
C17_Witness ==
    /\ out.variant = "V3" /\ out.exc = "none"
    /\ out.ch = <<"O","C">> /\ out.period = Fin(Scale)
    /\ out.seq = <<"L","L","D","D">>

----------------------------------------------------------------------------
(* C18 *)

\* C18: for class LFL, LightsV2 and LightsV3 return min(8, ticks - 1) lit ticks
\* followed by ticks - min(8, ticks - 1) dark ticks: ticks in all, at least one
\* lit and one dark, and the same string in both variants.
C18_LongFlashAllocation ==
    (Light23 /\ out.ch = <<"L","F","L">>) =>
        LET ticks == TickCount(EffectivePeriod(out.period))
            lit == Min(8, ticks - 1)
        IN  /\ LitDark(out.seq, lit, ticks - lit)
            /\ Len(out.seq) = ticks
            /\ lit >= 1 /\ ticks - lit >= 1
            /\ out.variant = "V2" => out.seq = V3_sequence(out.ch, out.period).val
            /\ out.variant = "V3" => out.seq = V2_sequence(out.ch, out.period).val

\* LightsV2 cut the long flash of a 1.5 s period to 5 of its 6 ticks
C18_Witness ==
    /\ out.variant = "V2" /\ out.exc = "none"
    /\ out.ch = <<"L","F","L">> /\ out.period = Fin(Scale + Scale \div 2)
    /\ out.seq = <<"L","L","L","L","L","D">>

----------------------------------------------------------------------------
(* C19 *)

\* C19: for class Q or VQ, LightsV2 and LightsV3 return LD repeated ticks div 2
\* times, starting lit and ending dark; ticks >= 4, so there are at least two
\* units and the single LD of the fallback is never returned.
C19_Quick ==
    (Light23 /\ out.ch \in {<<"Q">>, <<"V","Q">>}) =>
        LET ticks == TickCount(EffectivePeriod(out.period))
        IN  /\ Alternating(out.seq, ticks \div 2)
            /\ ticks \div 2 >= 2
            /\ out.seq # <<"L","D">>
            /\ out.seq[1] = "L" /\ out.seq[Len(out.seq)] = "D"

\* LightsV3 filled 8 of the 9 ticks of a 2.25 s quick light
C19_Witness ==
    /\ out.variant = "V3" /\ out.exc = "none"
    /\ out.ch = <<"V","Q">> /\ out.period = Fin(2 * Scale + Scale \div 4)
    /\ out.seq = <<"L","D","L","D","L","D","L","D">>

----------------------------------------------------------------------------
(* C20 *)

\* C20: when the two-line parser of LightsV2 or LightsV3 has returned, every
\* line whose first DMS token is a latitude and that is followed by a line whose
\* first DMS token is a longitude has exactly one entry, which pairs it with the
\* next such longitude line.
C20_LinePairing ==
    Parsed =>
        \A a \in 1..Len(lines) :
            (IsLatLine(lines[a]) /\ NextLonLine(lines, a) # 0) =>
                /\ Cardinality({k \in 1..Len(entries) : entries[k].lat = a}) = 1
                /\ \A k \in 1..Len(entries) :
                      entries[k].lat = a => entries[k].lon = NextLonLine(lines, a)

----------------------------------------------------------------------------
(* C21 *)

\* C21: in LightsV5 the type and the colour derived from one text agree: a
\* starboard lateral tag comes with a red light and a port lateral tag with a
\* green light.
C21_TypeAndColourAgree ==
    (out.variant = "V5" /\ out.exc = "none") =>
        /\ out.type \in {"stbd_post", "stbd_small"} => out.color = "red"
        /\ out.type \in {"port_post", "port_small"} => out.color = "green"

----------------------------------------------------------------------------
(* C22 *)

\* the tags LightsV6.infer_buoy_type can return, but for that of rule 3
InferredTags == {"north_small", "east_small", "south_small", "west_small", "safe",
                 "special_small", "pref_stbd_small", "pref_port_small",
                 "stbd_post", "port_post", "stbd_small", "port_small",
                 "mooring", "other"}

\* the tag of rule 3 is black or special_post
DangerTags == {"black", "special_post"}

\* C22: when LightsV6.main has read a file with every row of the inputs, each
\* tag infer_buoy_type can return stands in a record, the isolated-danger tag
\* and port_small among them: no rule is shadowed by an earlier one.
C22_EveryTagReturned ==
    CsvRead =>
        /\ \A k \in 1..Len(inside) : inside[k].exc = "none"
        /\ \A tag \in InferredTags : \E k \in 1..Len(inside) : inside[k].type = tag
        /\ \E k \in 1..Len(inside) : inside[k].type \in DangerTags
====
